---- MODULE Spec2Model ----
(***************************************************************************)
(* The process supervisor of lab_heartbeat: the registry (registry.py),    *)
(* the controller with its supervision loops (controller.py), the monitor  *)
(* loop (monitor.py) and the heartbeat tracker (heartbeat.py).             *)
(*                                                                         *)
(* Time.  The code reads a timestamp column only through its distance to   *)
(* "now" (heartbeat.py:77, registry.py:284), so last_heartbeat and         *)
(* started_at hold the age of the timestamp, in seconds, and AgeTick lets  *)
(* TickSeconds pass.  stopped_at is never read back: it is Never or Set.   *)
(* register() reads the wall clock at one-second granularity to mint the   *)
(* id (registry.py:128): that reading is the variable clock.               *)
(***************************************************************************)
EXTENDS Integers, Sequences, FiniteSets, TLC

\* ---------------------------------------------------------------- bounds
MaxClock == 1
MaxAgeTicks == 2
TickSeconds == 100
MaxRetriesCfg == 1
MaxSpawns == 2
MaxLoops == 2
MaxCallerOps == 3
MaxCount == 2
MaxAttempt == 3
MaxBackoffAttempt == 60

\* ------------------------------------------------------ program constants
crash_threshold == 60
timeout_threshold == 30
cleanup_timeout == 180

NoPid == 0
Never == -1
Set == 0
NoChild == 0
NoLoop == 0
Caller == 0

Loops == 1 .. MaxLoops
Threads == {Caller} \cup Loops

Names == {"a", "b"}
Policies == {"never", "on-failure", "always", "unless-stopped"}
States == {"registered", "starting", "running", "stopping", "stopped",
           "failed", "crashed"}

Ids == Names \X (0 .. MaxClock)

Configs ==
  [name : Names, restart_policy : Policies, max_retries : 0 .. MaxRetriesCfg]

VARIABLES
  table,            \* the processes table: live id -> row
  clock,            \* wall clock in seconds, as register() reads it
  everIds,          \* every id a register() call has returned so far
  regResult,        \* outcome of the last register()/unregister() call
  observed,         \* restart_count of TheId as a reader last saw it
  probe,            \* a call of a pure operation: its inputs and its result
  children,         \* OS children spawned so far; the pid of child i is i
  processes,        \* controller.processes[TheId]: a child handle, or NoChild
  restart_threads,  \* controller.restart_threads[TheId]: a loop, or NoLoop
  stop_events,      \* controller.stop_events[TheId]: the loop whose event it is
  event,            \* event[k]: the stop_event of supervision loop k is set
  pc,               \* position of the caller (thread 0) and of each loop
  attempt,          \* restart_attempt of each loop
  fin,              \* the state a loop has decided to write before it ends
  pol,              \* process_info.config.restart_policy held by start_process
  proc,             \* the Popen object held by start_process, by stop_process
  ret,              \* how the caller's last start_process/stop_process ended
  callerOps,        \* calls made by the caller so far
  tracked,          \* the handle stop_all found in controller.processes
  mpc, mpid,        \* monitor loop: position, pid of the row it is checking
  health,           \* monitor loop: result of its last health check
  rpc,              \* heartbeat loop: position
  hpc               \* register_heartbeat: position

regVars == <<table, clock, everIds, regResult, observed, probe>>
handles == <<processes, restart_threads, stop_events>>
loopLocals == <<event, attempt, fin>>
startLocals == <<pol, proc>>
callerVars == <<ret, callerOps, tracked>>
ctlVars == <<children, handles, loopLocals, startLocals, callerVars, pc>>
regTail == <<clock, everIds, regResult, observed, probe>>
monVars == <<mpc, mpid, health>>
hbVars == <<rpc, hpc>>
vars == <<regVars, ctlVars, monVars, hbVars>>

\* ------------------------------------------------------------- registry

\* id = f"{name}_{timestamp}": the pair of the name and the second.
MakeId(name, clk) == <<name, clk>>

NewRow(cfg) ==
  [ config |-> cfg, state |-> "registered", pid |-> NoPid,
    started_at |-> Never, stopped_at |-> Never, restart_count |-> 0,
    last_heartbeat |-> Never, error_message |-> "none" ]

\* SELECT id FROM processes WHERE name = ?
NameExists(tbl, name) == \E i \in DOMAIN tbl : tbl[i].config.name = name

\* The schema's constraints on INSERT: id PRIMARY KEY, name UNIQUE.
InsertViolatesSchema(tbl, id, name) ==
  \/ id \in DOMAIN tbl
  \/ \E i \in DOMAIN tbl : tbl[i].config.name = name

RegisterAlwaysInserts(tbl, cfg, clk) ==
  [ ok |-> TRUE, id |-> MakeId(cfg.name, clk),
    tbl |-> [ i \in DOMAIN tbl \cup {MakeId(cfg.name, clk)} |->
                IF i = MakeId(cfg.name, clk) THEN NewRow(cfg) ELSE tbl[i] ] ]

\* register(config): the outcome and the table after it.
RegisterOp(tbl, cfg, clk) ==
  LET id == MakeId(cfg.name, clk) IN
  IF NameExists(tbl, cfg.name) \/ InsertViolatesSchema(tbl, id, cfg.name)
  THEN [ ok |-> FALSE, id |-> id, tbl |-> tbl ]
  ELSE [ ok |-> TRUE, id |-> id, tbl |-> tbl @@ (id :> NewRow(cfg)) ]

UnregisterKeepsRow(tbl, id) ==
  [ ok |-> id \in DOMAIN tbl, tbl |-> tbl ]

\* unregister(process_id): DELETE ... WHERE id = ?
UnregisterOp(tbl, id) ==
  [ ok |-> id \in DOMAIN tbl,
    tbl |-> [ i \in DOMAIN tbl \ {id} |-> tbl[i] ] ]

Terminal == {"stopped", "failed", "crashed"}

\* update_state(process_id, state, pid, error): one UPDATE under the lock.  A
\* pid of NoPid and an error of "none" are the arguments left at None.
UpdateState(tbl, id, state, pid, error) ==
  IF id \notin DOMAIN tbl THEN tbl
  ELSE [ tbl EXCEPT ![id] =
    [ @ EXCEPT
        !.state = state,
        !.pid = IF state \in Terminal THEN NoPid
                ELSE IF pid # NoPid THEN pid ELSE @,
        !.started_at = IF state = "running" THEN 0 ELSE @,
        !.stopped_at = IF state = "running" THEN Never
                       ELSE IF state \in Terminal THEN Set ELSE @,
        !.error_message = IF error # "none" THEN error ELSE @ ] ]

\* update_heartbeat(process_id): last_heartbeat = CURRENT_TIMESTAMP.
UpdateHeartbeat(tbl, id) ==
  IF id \notin DOMAIN tbl THEN tbl
  ELSE [ tbl EXCEPT ![id].last_heartbeat = 0 ]

\* increment_restart_count(process_id)
IncrementRestartCount(tbl, id) ==
  IF id \notin DOMAIN tbl THEN tbl
  ELSE [ tbl EXCEPT ![id].restart_count = @ + 1 ]

IsStaleWithoutState(row, timeout_seconds) ==
  /\ row.last_heartbeat # Never
  /\ row.last_heartbeat > timeout_seconds

\* cleanup_stale_processes(timeout_seconds): one bulk UPDATE of state and
\* error_message, on the rows its WHERE clause selects.
IsStale(row, timeout_seconds) ==
  /\ row.state = "running"
  /\ row.last_heartbeat # Never
  /\ row.last_heartbeat > timeout_seconds

CleanupStale(tbl, timeout_seconds) ==
  [ i \in DOMAIN tbl |->
      IF IsStale(tbl[i], timeout_seconds)
      THEN [ tbl[i] EXCEPT !.state = "crashed",
                           !.error_message = "Process heartbeat timeout" ]
      ELSE tbl[i] ]

\* ------------------------------------------------------------ lifecycle
\* The controller, the monitor and the heartbeat tracker keep per-id state in
\* dictionaries keyed by id; the lifecycle is followed for one id, TheId.
TheId == MakeId("a", 0)

MaxAge == MaxAgeTicks * TickSeconds

Alive(c) == c # NoChild /\ c <= Len(children) /\ children[c] = "alive"

\* process.poll(): None while the child runs, else its exit code (0 or not).
ExitCode(c) == IF children[c] = "exit0" THEN 0 ELSE 1

ShouldRestartAtOrBelow(policy, exit_code, att, max_retries) ==
  IF policy = "never" THEN FALSE
  ELSE IF policy = "always" THEN att <= max_retries
  ELSE exit_code # 0 /\ att <= max_retries

\* _should_restart(policy, exit_code, attempt, max_retries)
ShouldRestart(policy, exit_code, att, max_retries) ==
  IF policy = "never" THEN FALSE
  ELSE IF policy = "always" THEN att < max_retries
  ELSE IF policy = "on-failure" THEN exit_code # 0 /\ att < max_retries
  ELSE IF policy = "unless-stopped" THEN exit_code # 0 /\ att < max_retries
  ELSE FALSE

\* ------------------------------------------- controller: start_process
Row == table[TheId]

\* A return of start_process/stop_process in thread t: the caller is idle
\* again, a supervision loop goes on to its stop_event.wait(2).  stop_all
\* drops what stop_process returns, and cleanup goes on to its joins.
Return(t, r) ==
  /\ pc' = [ pc EXCEPT ![t] = IF t # Caller THEN "poll"
                              ELSE IF ret = "cleanup" THEN "c_join"
                              ELSE "idle" ]
  /\ ret' = IF t # Caller THEN ret
            ELSE IF ret = "stop_all" THEN "stop_all_done"
            ELSE IF ret = "cleanup" THEN ret
            ELSE r
  /\ proc' = [ proc EXCEPT ![t] = NoChild ]

Goto(t, label) == pc' = [ pc EXCEPT ![t] = label ]

CallStart ==
  /\ pc[Caller] = "idle"
  /\ callerOps < MaxCallerOps
  /\ callerOps' = callerOps + 1
  /\ Goto(Caller, "start")
  /\ ret' = "none"
  /\ UNCHANGED <<regVars, monVars, hbVars, children, handles, loopLocals,
                 startLocals, tracked>>

StartGetRefusesNothing(t) ==
  /\ pc[t] = "start"
  /\ IF TheId \notin DOMAIN table THEN Return(t, "notfound") /\ UNCHANGED pol
     ELSE /\ Goto(t, "s_starting")
          /\ pol' = [ pol EXCEPT ![t] = Row.config.restart_policy ]
          /\ UNCHANGED <<ret, proc>>
  /\ UNCHANGED <<regVars, monVars, hbVars, children, handles, loopLocals,
                 callerOps, tracked>>

\* get_process and the two early returns
StartGet(t) ==
  /\ pc[t] = "start"
  /\ IF TheId \notin DOMAIN table THEN Return(t, "notfound") /\ UNCHANGED pol
     ELSE IF Row.state = "running"
     THEN Return(t, "already_running") /\ UNCHANGED pol
     ELSE /\ Goto(t, "s_starting")
          /\ pol' = [ pol EXCEPT ![t] = Row.config.restart_policy ]
          /\ UNCHANGED <<ret, proc>>
  /\ UNCHANGED <<regVars, monVars, hbVars, children, handles, loopLocals,
                 callerOps, tracked>>

StartStarting(t) ==
  /\ pc[t] = "s_starting"
  /\ table' = UpdateState(table, TheId, "starting", NoPid, "none")
  /\ Goto(t, "s_spawn")
  /\ UNCHANGED <<regTail, monVars, hbVars, children, handles, loopLocals,
                 startLocals, callerVars>>

\* subprocess.Popen succeeds; self.processes[process_id] = process
StartSpawn(t) ==
  /\ pc[t] = "s_spawn"
  /\ Len(children) < MaxSpawns
  /\ children' = Append(children, "alive")
  /\ processes' = Len(children) + 1
  /\ proc' = [ proc EXCEPT ![t] = Len(children) + 1 ]
  /\ Goto(t, "s_running")
  /\ UNCHANGED <<regVars, monVars, hbVars, restart_threads, stop_events,
                 loopLocals, pol, callerVars>>

\* subprocess.Popen raises
StartSpawnFails(t) ==
  /\ pc[t] = "s_spawn"
  /\ Goto(t, "s_failed")
  /\ UNCHANGED <<regVars, monVars, hbVars, children, handles, loopLocals,
                 startLocals, callerVars>>

StartRunning(t) ==
  /\ pc[t] = "s_running"
  /\ table' = UpdateState(table, TheId, "running", proc[t], "none")
  /\ Goto(t, "s_monitor")
  /\ UNCHANGED <<regTail, monVars, hbVars, children, handles, loopLocals,
                 startLocals, callerVars>>

\* A thread object not yet started, or one that has ended and that the
\* controller no longer refers to.
FreeLoops ==
  { k \in Loops : pc[k] \in {"unborn", "done"} /\ restart_threads # k }

FirstFree == CHOOSE k \in FreeLoops : \A j \in FreeLoops : k <= j

\* _start_restart_monitor, then return True
StartMonitor(t) ==
  /\ pc[t] = "s_monitor"
  /\ IF pol[t] # "never" /\ restart_threads = NoLoop
     THEN /\ FreeLoops # {}
          /\ restart_threads' = FirstFree
          /\ stop_events' = FirstFree
          /\ event' = [ event EXCEPT ![FirstFree] = FALSE ]
          /\ pc' = [ pc EXCEPT ![t] = IF t = Caller THEN "idle" ELSE "poll",
                               ![FirstFree] = "poll" ]
     ELSE /\ UNCHANGED <<restart_threads, stop_events, event>>
          /\ pc' = [ pc EXCEPT ![t] = IF t = Caller THEN "idle" ELSE "poll" ]
  /\ ret' = IF t = Caller THEN "started" ELSE ret
  /\ proc' = [ proc EXCEPT ![t] = NoChild ]
  /\ UNCHANGED <<regVars, monVars, hbVars, children, processes, attempt, fin,
                 pol, callerOps, tracked>>

StartFailedDropsError(t) ==
  /\ pc[t] = "s_failed"
  /\ table' = UpdateState(table, TheId, "failed", NoPid, "none")
  /\ Return(t, "spawn_failed")
  /\ UNCHANGED <<regTail, monVars, hbVars, children, handles, loopLocals,
                 pol, callerOps, tracked>>

\* except Exception: update_state(FAILED, error=str(e)); return False
StartFailed(t) ==
  /\ pc[t] = "s_failed"
  /\ table' = UpdateState(table, TheId, "failed", NoPid, "spawn error")
  /\ Return(t, "spawn_failed")
  /\ UNCHANGED <<regTail, monVars, hbVars, children, handles, loopLocals,
                 pol, callerOps, tracked>>

\* -------------------------------------------- controller: stop_process
CallStop ==
  /\ pc[Caller] = "idle"
  /\ callerOps < MaxCallerOps
  /\ callerOps' = callerOps + 1
  /\ Goto(Caller, "stop")
  /\ ret' = "none"
  /\ UNCHANGED <<regVars, monVars, hbVars, children, handles, loopLocals,
                 startLocals, tracked>>

StopGetStopsAnyway ==
  /\ pc[Caller] = "stop"
  /\ IF TheId \notin DOMAIN table
     THEN Return(Caller, "notfound") /\ UNCHANGED <<processes, event>>
     ELSE IF Row.state \in Terminal
     THEN Return(Caller, "already_stopped") /\ processes' = NoChild
          /\ UNCHANGED event
     ELSE /\ Goto(Caller, "t_join")
          /\ event' = IF stop_events # NoLoop
                      THEN [ event EXCEPT ![stop_events] = TRUE ] ELSE event
          /\ UNCHANGED <<processes, ret, proc>>
  /\ UNCHANGED <<regVars, monVars, hbVars, children, restart_threads,
                 stop_events, attempt, fin, pol, callerOps, tracked>>

StopGetWritesStopped ==
  /\ pc[Caller] = "stop"
  /\ IF TheId \notin DOMAIN table
     THEN Return(Caller, "notfound") /\ UNCHANGED <<processes, event, table>>
     ELSE IF Row.state \in Terminal
     THEN Return(Caller, "already_stopped") /\ processes' = NoChild
          /\ UNCHANGED event
          /\ table' = UpdateState(table, TheId, "stopped", NoPid, "none")
     ELSE IF Row.state # "running"
     THEN Return(Caller, "refused") /\ UNCHANGED <<processes, event, table>>
     ELSE /\ Goto(Caller, "t_join")
          /\ event' = IF stop_events # NoLoop
                      THEN [ event EXCEPT ![stop_events] = TRUE ] ELSE event
          /\ UNCHANGED <<processes, ret, proc, table>>
  /\ UNCHANGED <<regTail, monVars, hbVars, children, restart_threads,
                 stop_events, attempt, fin, pol, callerOps, tracked>>

\* get_process, the early returns, and stop_events[process_id].set()
StopGet ==
  /\ pc[Caller] = "stop"
  /\ IF TheId \notin DOMAIN table
     THEN Return(Caller, "notfound") /\ UNCHANGED <<processes, event>>
     ELSE IF Row.state \in Terminal
     THEN Return(Caller, "already_stopped") /\ processes' = NoChild
          /\ UNCHANGED event
     ELSE IF Row.state # "running"
     THEN Return(Caller, "refused") /\ UNCHANGED <<processes, event>>
     ELSE /\ Goto(Caller, "t_join")
          /\ event' = IF stop_events # NoLoop
                      THEN [ event EXCEPT ![stop_events] = TRUE ] ELSE event
          /\ UNCHANGED <<processes, ret, proc>>
  /\ UNCHANGED <<regVars, monVars, hbVars, children, restart_threads,
                 stop_events, attempt, fin, pol, callerOps, tracked>>

\* thread.join(timeout=5) gives up on a loop that is inside a registry or OS
\* call for longer than that; a loop in one of its stop_event waits wakes up
\* at once and ends.
JoinMayTimeOut(k) ==
  pc[k] \in {"incr", "start", "s_starting", "s_spawn", "s_running",
             "s_monitor", "s_failed", "final"}

\* the rest of _stop_restart_monitor
StopJoin ==
  /\ pc[Caller] = "t_join"
  /\ restart_threads # NoLoop =>
       (pc[restart_threads] = "done" \/ JoinMayTimeOut(restart_threads))
  /\ restart_threads' = NoLoop
  /\ stop_events' = NoLoop
  /\ Goto(Caller, "t_stopping")
  /\ UNCHANGED <<regVars, monVars, hbVars, children, processes, loopLocals,
                 startLocals, callerVars>>

StopStoppingSkipsWrite ==
  /\ pc[Caller] = "t_stopping"
  /\ table' = table
  /\ Goto(Caller, "t_signal")
  /\ UNCHANGED <<regTail, monVars, hbVars, children, handles, loopLocals,
                 startLocals, callerVars>>

\* update_state(process_id, STOPPING)
StopStopping ==
  /\ pc[Caller] = "t_stopping"
  /\ table' = UpdateState(table, TheId, "stopping", NoPid, "none")
  /\ Goto(Caller, "t_signal")
  /\ UNCHANGED <<regTail, monVars, hbVars, children, handles, loopLocals,
                 startLocals, callerVars>>

\* process = self.processes.get(process_id); nothing is sent to a child that
\* has exited.  force: kill().  Otherwise terminate(): the child ends on the
\* signal at once, or it is still running when the wait begins.
StopSignal(force) ==
  /\ pc[Caller] = "t_signal"
  /\ IF ~Alive(processes)
     THEN Goto(Caller, "t_stopped") /\ UNCHANGED children
     ELSE IF force
     THEN /\ children' = [ children EXCEPT ![processes] = "killed" ]
          /\ Goto(Caller, "t_stopped")
     ELSE /\ \E obeys \in BOOLEAN :
               children' = IF obeys
                           THEN [ children EXCEPT ![processes] = "terminated" ]
                           ELSE children
          /\ Goto(Caller, "t_wait")
  /\ proc' = [ proc EXCEPT ![Caller] = processes ]
  /\ UNCHANGED <<regVars, monVars, hbVars, handles, loopLocals, pol,
                 callerVars>>

\* process.wait(timeout=graceful_timeout): over when the child has exited,
\* TimeoutExpired when it is still running
StopWait ==
  /\ pc[Caller] = "t_wait"
  /\ IF Alive(proc[Caller]) THEN Goto(Caller, "t_kill")
     ELSE Goto(Caller, "t_stopped")
  /\ UNCHANGED <<regVars, monVars, hbVars, children, handles, loopLocals,
                 startLocals, callerVars>>

StopKillGivesUp ==
  /\ pc[Caller] = "t_kill"
  /\ Goto(Caller, "t_killed")
  /\ UNCHANGED <<regVars, monVars, hbVars, children, handles, loopLocals,
                 startLocals, callerVars>>

\* process.kill(); process.wait(): SIGKILL is not one a child can ignore
StopKill ==
  /\ pc[Caller] = "t_kill"
  /\ children' = IF Alive(proc[Caller])
                 THEN [ children EXCEPT ![proc[Caller]] = "killed" ]
                 ELSE children
  /\ Goto(Caller, "t_killed")
  /\ UNCHANGED <<regVars, monVars, hbVars, handles, loopLocals, startLocals,
                 callerVars>>

\* processes.pop; update_state(STOPPED); return True
StopStopped ==
  /\ pc[Caller] \in {"t_stopped", "t_killed"}
  /\ processes' = NoChild
  /\ table' = UpdateState(table, TheId, "stopped", NoPid, "none")
  /\ Return(Caller, "stopped")
  /\ UNCHANGED <<regTail, monVars, hbVars, children, restart_threads,
                 stop_events, loopLocals, pol, callerOps, tracked>>

\* --------------------------------------- controller: stop_all, cleanup
\* stop_all(), on its own or as the first line of cleanup(): stop_process for
\* every id that has a handle
CallStopAll(op) ==
  /\ pc[Caller] = "idle"
  /\ callerOps < MaxCallerOps
  /\ callerOps' = callerOps + 1
  /\ tracked' = processes
  /\ IF processes # NoChild
     THEN Goto(Caller, "stop") /\ ret' = op
     ELSE IF op = "cleanup"
     THEN Goto(Caller, "c_join") /\ ret' = op
     ELSE ret' = "stop_all_done" /\ UNCHANGED pc
  /\ UNCHANGED <<regVars, monVars, hbVars, children, handles, loopLocals,
                 startLocals>>

\* cleanup's loop over restart_threads: join(timeout=5) of a thread that is
\* alive.  A loop whose event is set and that is in one of its waits ends
\* within the timeout; no other loop has to.
CleanupJoin ==
  /\ pc[Caller] = "c_join"
  /\ (restart_threads # NoLoop /\ event[restart_threads])
       => (pc[restart_threads] = "done" \/ JoinMayTimeOut(restart_threads))
  /\ Goto(Caller, "idle")
  /\ ret' = "cleanup_done"
  /\ UNCHANGED <<regVars, monVars, hbVars, children, handles, loopLocals,
                 startLocals, callerOps, tracked>>

\* ------------------------------------- controller: _restart_monitor_loop
\* The loop ends: its locals are gone.
Finish(k) ==
  /\ pc' = [ pc EXCEPT ![k] = "done" ]
  /\ attempt' = [ attempt EXCEPT ![k] = 0 ]
  /\ fin' = [ fin EXCEPT ![k] = "none" ]

\* One pass of the while loop up to its decision: the is_set test, get_process,
\* processes.get, poll, _should_restart and the is_set test of the else branch.
\* A pass that finds the child running, or no handle, changes nothing.
LoopPoll(k) ==
  /\ pc[k] = "poll"
  /\ IF event[k] \/ TheId \notin DOMAIN table THEN Finish(k)
     ELSE /\ processes # NoChild
          /\ ~Alive(processes)
          /\ IF ShouldRestart(Row.config.restart_policy, ExitCode(processes),
                              attempt[k], Row.config.max_retries)
             THEN Goto(k, "backoff") /\ UNCHANGED fin
             ELSE /\ Goto(k, "final")
                  /\ fin' = [ fin EXCEPT ![k] =
                       IF ExitCode(processes) # 0 THEN "failed" ELSE "stopped" ]
          /\ UNCHANGED attempt
  /\ UNCHANGED <<regVars, monVars, hbVars, children, handles, event,
                 startLocals, callerVars>>

LoopBackoffIgnoresEvent(k) ==
  /\ pc[k] = "backoff"
  /\ Goto(k, "incr") /\ UNCHANGED <<attempt, fin>>
  /\ UNCHANGED <<regVars, monVars, hbVars, children, handles, event,
                 startLocals, callerVars>>

\* stop_event.wait(wait_time): True ends the loop, False is the wait run out
LoopBackoff(k) ==
  /\ pc[k] = "backoff"
  /\ IF event[k] THEN Finish(k)
     ELSE Goto(k, "incr") /\ UNCHANGED <<attempt, fin>>
  /\ UNCHANGED <<regVars, monVars, hbVars, children, handles, event,
                 startLocals, callerVars>>

\* increment_restart_count; restart_attempt += 1; then start_process is called
LoopIncr(k) ==
  /\ pc[k] = "incr"
  /\ table' = IncrementRestartCount(table, TheId)
  /\ attempt' = [ attempt EXCEPT ![k] = @ + 1 ]
  /\ Goto(k, "start")
  /\ UNCHANGED <<regTail, monVars, hbVars, children, handles, event, fin,
                 startLocals, callerVars>>

\* update_state(process_id, state); break
LoopFinal(k) ==
  /\ pc[k] = "final"
  /\ table' = UpdateState(table, TheId, fin[k], NoPid, "none")
  /\ Finish(k)
  /\ UNCHANGED <<regTail, monVars, hbVars, children, handles, event,
                 startLocals, callerVars>>

\* ---------------------------------------------------------------- monitor
\* list_all_processes: the tick's snapshot.  A tick that has no RUNNING row
\* to check goes straight to cleanup_stale_processes().
MonList ==
  /\ mpc = "idle"
  /\ IF TheId \in DOMAIN table /\ Row.state = "running"
     THEN mpc' = "check" /\ mpid' = Row.pid /\ UNCHANGED table
     ELSE /\ table' = CleanupStale(table, cleanup_timeout)
          /\ UNCHANGED <<mpc, mpid>>
  /\ UNCHANGED health
  /\ UNCHANGED <<regTail, ctlVars, hbVars>>

\* The write _check_process decides on: the pid is gone and the state it
\* re-reads is neither STOPPING nor STOPPED.
MonitorWrites(pid, tbl) ==
  /\ pid # NoPid
  /\ ~Alive(pid)
  /\ TheId \in DOMAIN tbl
  /\ tbl[TheId].state \notin {"stopping", "stopped"}

\* What a health check does once it is configured: "healthy", "unhealthy" (a
\* status outside 200..299, or a transport error); "none" when the record has
\* no health_check_endpoint.
HealthResults == {"none", "healthy", "unhealthy"}

\* _check_process returns before the health check when the pid is gone.
ReachesHealthCheck(pid) == pid = NoPid \/ Alive(pid)

HealthCheckMarksFailed(tbl, result) ==
  IF result = "unhealthy"
  THEN UpdateState(tbl, TheId, "failed", NoPid, "health check failed")
  ELSE tbl

\* What the health-check branch of _check_process does to the registry with
\* its result: an unhealthy one is logged and handed to the callback.
HealthCheckEffect(tbl, result) == tbl

\* _check_process up to its decision; without a write it goes on to the health
\* check, if it gets that far, and the tick ends with
\* cleanup_stale_processes().
MonCheck ==
  /\ mpc = "check"
  /\ IF MonitorWrites(mpid, table)
     THEN mpc' = "write" /\ UNCHANGED <<mpid, table, health>>
     ELSE /\ \E result \in HealthResults :
               /\ ReachesHealthCheck(mpid) \/ result = "none"
               /\ health' = result
               /\ table' = CleanupStale(HealthCheckEffect(table, result),
                                        cleanup_timeout)
          /\ mpc' = "idle"
          /\ mpid' = NoPid
  /\ UNCHANGED <<regTail, ctlVars, hbVars>>

\* update_state(CRASHED, error="Process not found"), then the tick's
\* cleanup_stale_processes()
MonWrite ==
  /\ mpc = "write"
  /\ table' = CleanupStale(
       UpdateState(table, TheId, "crashed", NoPid, "Process not found"),
       cleanup_timeout)
  /\ mpc' = "idle"
  /\ mpid' = NoPid
  /\ health' = "none"
  /\ UNCHANGED <<regTail, ctlVars, hbVars>>

\* ------------------------------------------------------ heartbeat tracker
\* _check_heartbeats on a row of its list_processes(RUNNING) snapshot, on a
\* host whose local time is UTC
CrashVerdict(row) ==
  /\ row.state = "running"
  /\ row.last_heartbeat # Never
  /\ row.last_heartbeat > crash_threshold

\* a tick that finds nothing to mark changes nothing
ReapList ==
  /\ rpc = "idle"
  /\ TheId \in DOMAIN table
  /\ CrashVerdict(Row)
  /\ rpc' = "write"
  /\ UNCHANGED <<hpc, regVars, ctlVars, monVars>>

ReapWrite ==
  /\ rpc = "write"
  /\ table' = UpdateState(table, TheId, "crashed", NoPid, "Heartbeat timeout")
  /\ rpc' = "idle"
  /\ UNCHANGED <<hpc, regTail, ctlVars, monVars>>

\* register_heartbeat up to its decision: get_process, update_heartbeat and
\* the test of the state it read.  Heartbeats come from the children of the
\* record; one for an unknown id is rejected and changes nothing.
HbBeat ==
  /\ hpc = "idle"
  /\ \E c \in 1 .. Len(children) : Alive(c)
  /\ TheId \in DOMAIN table
  /\ table' = UpdateHeartbeat(table, TheId)
  /\ hpc' = IF Row.state = "starting" THEN "write" ELSE "idle"
  /\ UNCHANGED <<rpc, regTail, ctlVars, monVars>>

\* update_state(process_id, ProcessState.RUNNING)
HbWrite ==
  /\ hpc = "write"
  /\ table' = UpdateState(table, TheId, "running", NoPid, "none")
  /\ hpc' = "idle"
  /\ UNCHANGED <<rpc, regTail, ctlVars, monVars>>

\* ------------------------------------------------------------ environment
\* a running child exits on its own, with status 0 or not
ChildExit(c, status) ==
  /\ Alive(c)
  /\ children' = [ children EXCEPT ![c] = status ]
  /\ UNCHANGED <<regVars, monVars, hbVars, handles, loopLocals, startLocals,
                 callerVars, pc>>

Older(a) ==
  IF a = Never THEN Never
  ELSE IF a + TickSeconds > MaxAge THEN MaxAge ELSE a + TickSeconds

\* Every call the model follows step by step is over in far less than
\* TickSeconds: time passes while the caller is idle, the ticks of the monitor
\* and of the heartbeat tracker are over, no heartbeat is being registered and
\* each supervision loop is in one of its waits.
BetweenCalls ==
  /\ pc[Caller] = "idle"
  /\ \A k \in Loops : pc[k] \in {"unborn", "poll", "backoff", "done"}
  /\ mpc = "idle"
  /\ rpc = "idle"
  /\ hpc = "idle"

\* TickSeconds pass: every timestamp is that much older
AgeTick ==
  /\ BetweenCalls
  /\ table' = [ i \in DOMAIN table |->
                  [ table[i] EXCEPT !.last_heartbeat = Older(@),
                                    !.started_at = Older(@) ] ]
  /\ table' # table
  /\ UNCHANGED <<regTail, ctlVars, monVars, hbVars>>

\* a controller, a monitor and a heartbeat tracker just constructed
InitControl ==
  /\ processes = NoChild
  /\ restart_threads = NoLoop
  /\ stop_events = NoLoop
  /\ event = [ k \in Loops |-> FALSE ]
  /\ pc = [ t \in Threads |-> IF t = Caller THEN "idle" ELSE "unborn" ]
  /\ attempt = [ k \in Loops |-> 0 ]
  /\ fin = [ k \in Loops |-> "none" ]
  /\ pol = [ t \in Threads |-> "never" ]
  /\ proc = [ t \in Threads |-> NoChild ]
  /\ ret = "none"
  /\ callerOps = 0
  /\ tracked = NoChild
  /\ mpc = "idle"
  /\ mpid = NoPid
  /\ health = "none"
  /\ rpc = "idle"
  /\ hpc = "idle"

InitLife ==
  /\ children = << >>
  /\ InitControl

InitReg ==
  /\ InitLife
  /\ table = << >>
  /\ clock = 0
  /\ everIds = {}
  /\ regResult = [ op |-> "none", ok |-> TRUE, id |-> MakeId("a", 0), dup |-> FALSE,
                  fresh |-> FALSE, changed |-> FALSE ]
  /\ observed = 0
  /\ probe = [ op |-> "none" ]

Register(cfg) ==
  LET r == RegisterOp(table, cfg, clock) IN
  /\ table' = r.tbl
  /\ everIds' = IF r.ok THEN everIds \cup {r.id} ELSE everIds
  /\ regResult' = [ op |-> "register", ok |-> r.ok, id |-> r.id,
                    dup |-> NameExists(table, cfg.name),
                    fresh |-> r.id \notin everIds,
                    changed |-> r.tbl # table ]
  /\ UNCHANGED <<clock, observed, probe>>
  /\ UNCHANGED <<ctlVars, monVars, hbVars>>

Unregister(id) ==
  LET r == UnregisterOp(table, id) IN
  /\ table' = r.tbl
  /\ regResult' = [ op |-> "unregister", ok |-> r.ok, id |-> id, dup |-> FALSE,
                    fresh |-> FALSE, changed |-> r.tbl # table ]
  /\ UNCHANGED <<clock, everIds, observed, probe>>
  /\ UNCHANGED <<ctlVars, monVars, hbVars>>

\* One second passes on the wall clock.
ClockTick ==
  /\ clock < MaxClock
  /\ clock' = clock + 1
  /\ UNCHANGED <<table, everIds, regResult, observed, probe>>
  /\ UNCHANGED <<ctlVars, monVars, hbVars>>

NextReg ==
  \/ \E cfg \in Configs : Register(cfg)
  \/ \E id \in Ids : Unregister(id)
  \/ ClockTick

SpecReg == InitReg /\ [][NextReg]_vars

\* ------------------------------------ registry: cleanup_stale_processes
\* cleanup_stale_processes(T) on a table of two records in any state, with
\* heartbeats that are absent, fresh, exactly T old and older than T.
StaleIds == {MakeId("a", 0), MakeId("b", 0)}
StaleAges == {Never, 0, cleanup_timeout, cleanup_timeout + 1}
StaleTimeouts == {0, cleanup_timeout}

StaleRow(name, state, hb) ==
  [ NewRow([name |-> name, restart_policy |-> "never", max_retries |-> 0])
      EXCEPT !.state = state,
             !.last_heartbeat = hb,
             !.pid = IF state \in {"running", "stopping"} THEN 1 ELSE NoPid,
             !.started_at = IF state = "registered" THEN Never
                            ELSE cleanup_timeout + 1,
             !.stopped_at = IF state \in Terminal THEN Set ELSE Never ]

InitStale ==
  /\ InitLife
  /\ table \in { [ i \in StaleIds |-> StaleRow(i[1], f[i][1], f[i][2]) ] :
                  f \in [StaleIds -> States \X StaleAges] }
  /\ clock = 0
  /\ everIds = StaleIds
  /\ regResult = [ op |-> "none", ok |-> TRUE, id |-> MakeId("a", 0),
                   dup |-> FALSE, fresh |-> FALSE, changed |-> FALSE ]
  /\ observed = 0
  /\ probe = [ op |-> "none" ]

Cleanup(timeout_seconds) ==
  /\ probe.op = "none"
  /\ table' = CleanupStale(table, timeout_seconds)
  /\ probe' = [ op |-> "cleanup", timeout |-> timeout_seconds,
                before |-> table ]
  /\ UNCHANGED <<clock, everIds, regResult, observed>>
  /\ UNCHANGED <<ctlVars, monVars, hbVars>>

NextStale == \E timeout_seconds \in StaleTimeouts : Cleanup(timeout_seconds)

SpecStale == InitStale /\ [][NextStale]_vars

\* -------------------------------------------- controller: _should_restart
\* _should_restart on every policy string, one that is no policy included,
\* exit codes of a normal end, a failure and a signal, and attempts and
\* max_retries on both sides of each other.
PolicyArgs ==
  [ op : {"args"}, policy : Policies \cup {"bogus"}, exit_code : {-9, 0, 1},
    attempt : 0 .. MaxAttempt, max_retries : -1 .. MaxAttempt ]

InitPolicy ==
  /\ InitLife
  /\ table = << >>
  /\ clock = 0
  /\ everIds = {}
  /\ regResult = [ op |-> "none", ok |-> TRUE, id |-> MakeId("a", 0),
                   dup |-> FALSE, fresh |-> FALSE, changed |-> FALSE ]
  /\ observed = 0
  /\ probe \in PolicyArgs

CallShouldRestart ==
  /\ probe.op = "args"
  /\ probe' = [ op |-> "should_restart", policy |-> probe.policy,
                exit_code |-> probe.exit_code, attempt |-> probe.attempt,
                max_retries |-> probe.max_retries,
                out |-> ShouldRestart(probe.policy, probe.exit_code,
                                      probe.attempt, probe.max_retries) ]
  /\ UNCHANGED <<table, clock, everIds, regResult, observed>>
  /\ UNCHANGED <<ctlVars, monVars, hbVars>>

SpecPolicy == InitPolicy /\ [][CallShouldRestart]_vars

\* ------------------------------------- registry: ProcessConfig and its dict
\* The members of ProcessType and the value of each.
ProcessTypes == {"PYTHON", "NODEJS", "SHELL", "DOCKER", "CUSTOM"}

TypeValue(member) ==
  CASE member = "PYTHON" -> "python"
    [] member = "NODEJS" -> "nodejs"
    [] member = "SHELL" -> "shell"
    [] member = "DOCKER" -> "docker"
    [] member = "CUSTOM" -> "custom"

\* ProcessType(value): the member that has the value
TypeOfValue(value) == CHOOSE member \in ProcessTypes : TypeValue(member) = value

None == "None"

\* "x or default" replaces an empty dict or list (a to_dict result never holds
\* None under env, ports or dependencies).
Falsy(x) == DOMAIN x = {}

\* ProcessConfig values: env a dict, ports and dependencies lists (a dict and a
\* list are functions here, the empty ones the empty function), the health
\* check endpoint a path or None.
FullConfigs ==
  [ name : {"a"}, command : {"run.sh"}, type : ProcessTypes, workdir : {"/srv"},
    env : {<< >>, [k \in {"PORT"} |-> "8080"]},
    ports : {<< >>, <<8080>>},
    restart_policy : Policies, max_retries : {0, MaxRetriesCfg},
    health_check_endpoint : {None, "/health"},
    health_check_interval : {timeout_threshold},
    dependencies : {<< >>, <<"b">>} ]

\* to_dict: asdict(self) with the type replaced by its value
ToDict(c) == [ c EXCEPT !.type = TypeValue(c.type) ]

FromDictKeepsTag(d) ==
  [ d EXCEPT !.env = IF Falsy(d.env) THEN << >> ELSE d.env,
             !.ports = IF Falsy(d.ports) THEN << >> ELSE d.ports,
             !.dependencies =
                IF Falsy(d.dependencies) THEN << >> ELSE d.dependencies ]

\* from_dict: the type looked up from its value, env, ports and dependencies
\* defaulted when falsy, the other keys passed to the constructor as they are
FromDict(d) ==
  [ d EXCEPT !.type = TypeOfValue(d.type),
             !.env = IF Falsy(d.env) THEN << >> ELSE d.env,
             !.ports = IF Falsy(d.ports) THEN << >> ELSE d.ports,
             !.dependencies =
                IF Falsy(d.dependencies) THEN << >> ELSE d.dependencies ]

InitConfig ==
  /\ InitLife
  /\ table = << >>
  /\ clock = 0
  /\ everIds = {}
  /\ regResult = [ op |-> "none", ok |-> TRUE, id |-> MakeId("a", 0),
                   dup |-> FALSE, fresh |-> FALSE, changed |-> FALSE ]
  /\ observed = 0
  /\ probe \in [ op : {"config"}, c : FullConfigs ]

RoundTrip ==
  /\ probe.op = "config"
  /\ probe' = [ op |-> "round_trip", c |-> probe.c, d |-> ToDict(probe.c),
                back |-> FromDict(ToDict(probe.c)) ]
  /\ UNCHANGED <<table, clock, everIds, regResult, observed>>
  /\ UNCHANGED <<ctlVars, monVars, hbVars>>

SpecConfig == InitConfig /\ [][RoundTrip]_vars

\* ------------------------------------------ controller: the backoff wait
\* self.restart_backoff
restart_backoff == <<1, 2, 4, 8, 16, 30, 60>>

Min(a, b) == IF a < b THEN a ELSE b

BackoffIndexCapsEarly(att) == Min(att, Len(restart_backoff) - 2)

\* backoff_index = min(restart_attempt, len(self.restart_backoff) - 1)
BackoffIndex(att) == Min(att, Len(restart_backoff) - 1)

\* wait_time = self.restart_backoff[backoff_index]; Python lists count from 0
BackoffWait(att) == restart_backoff[BackoffIndex(att) + 1]

InitBackoff ==
  /\ InitLife
  /\ table = << >>
  /\ clock = 0
  /\ everIds = {}
  /\ regResult = [ op |-> "none", ok |-> TRUE, id |-> MakeId("a", 0),
                   dup |-> FALSE, fresh |-> FALSE, changed |-> FALSE ]
  /\ observed = 0
  /\ probe \in [ op : {"attempt"}, attempt : 0 .. MaxBackoffAttempt ]

ComputeBackoff ==
  /\ probe.op = "attempt"
  /\ probe' = [ op |-> "backoff", attempt |-> probe.attempt,
                index |-> BackoffIndex(probe.attempt),
                wait |-> BackoffWait(probe.attempt) ]
  /\ UNCHANGED <<table, clock, everIds, regResult, observed>>
  /\ UNCHANGED <<ctlVars, monVars, hbVars>>

SpecBackoff == InitBackoff /\ [][ComputeBackoff]_vars

\* ------------------------------------ registry: writes addressed by an id
RegisterHeartbeatAcceptsAll(tbl, id) ==
  [ ok |-> TRUE, tbl |-> UpdateHeartbeat(tbl, id) ]

\* register_heartbeat(process_id) with no other call in between: False for an
\* id get_process does not find, else update_heartbeat, update_state(RUNNING)
\* if the record was STARTING, and True
RegisterHeartbeatOp(tbl, id) ==
  IF id \notin DOMAIN tbl THEN [ ok |-> FALSE, tbl |-> tbl ]
  ELSE [ ok |-> TRUE,
         tbl |-> IF tbl[id].state = "starting"
                 THEN UpdateState(UpdateHeartbeat(tbl, id), id, "running",
                                  NoPid, "none")
                 ELSE UpdateHeartbeat(tbl, id) ]

WriteOps ==
  {"update_state", "update_heartbeat", "increment_restart_count",
   "register_heartbeat"}

\* The table after one of the calls, made by whichever actor holds the id.
WriteResult(tbl, op, id) ==
  CASE op = "update_state" ->
         IF id \in DOMAIN tbl /\ tbl[id].state = "registered"
         THEN UpdateState(tbl, id, "starting", NoPid, "none")
         ELSE UpdateState(tbl, id, "crashed", NoPid, "Process not found")
    [] op = "update_heartbeat" -> UpdateHeartbeat(tbl, id)
    [] op = "increment_restart_count" -> IncrementRestartCount(tbl, id)
    [] op = "register_heartbeat" -> RegisterHeartbeatOp(tbl, id).tbl

Write(op, id) ==
  /\ (op = "increment_restart_count" /\ id \in DOMAIN table)
       => table[id].restart_count < MaxCount
  /\ table' = WriteResult(table, op, id)
  /\ probe' = [ op |-> op, id |-> id, known |-> id \in DOMAIN table,
                ok |-> IF op = "register_heartbeat"
                       THEN RegisterHeartbeatOp(table, id).ok
                       ELSE TRUE ]
  /\ UNCHANGED <<clock, everIds, regResult, observed>>
  /\ UNCHANGED <<ctlVars, monVars, hbVars>>

\* cleanup_stale_processes(), by the monitor's tick
CleanupCall ==
  /\ table' = CleanupStale(table, cleanup_timeout)
  /\ probe' = [ op |-> "cleanup_stale", id |-> TheId, known |-> TRUE,
                ok |-> TRUE ]
  /\ UNCHANGED <<clock, everIds, regResult, observed>>
  /\ UNCHANGED <<ctlVars, monVars, hbVars>>

\* register(config) of a record that is not supervised
RegisterPlain ==
  \E cfg \in Configs :
    /\ cfg.restart_policy = "never"
    /\ cfg.max_retries = 0
    /\ Register(cfg)

\* The calls are followed for TheId, registered or not; the record of the
\* other name stands by.
NextWrites ==
  \/ RegisterPlain
  \/ \E id \in Ids : Unregister(id)
  \/ \E op \in WriteOps : Write(op, TheId)
  \/ CleanupCall
  \/ AgeTick

SpecWrites == InitReg /\ [][NextWrites]_vars

\* ------------------------------------------- registry: the restart counter
\* increment_restart_count(TheId), by whichever actor calls it
Increment ==
  /\ TheId \in DOMAIN table
  /\ Row.restart_count < MaxCount
  /\ table' = IncrementRestartCount(table, TheId)
  /\ UNCHANGED <<regTail, ctlVars, monVars, hbVars>>

\* a reader (get_process, list_processes) looks at restart_count of TheId
Observe ==
  /\ TheId \in DOMAIN table
  /\ observed # Row.restart_count
  /\ observed' = Row.restart_count
  /\ UNCHANGED <<table, clock, everIds, regResult, probe>>
  /\ UNCHANGED <<ctlVars, monVars, hbVars>>

NextCount == NextReg \/ Increment \/ Observe

SpecCount == InitReg /\ [][NextCount]_vars

\* --------------------------------------------------- the supervisor as a whole
Init == InitReg

\* register(config) for the record the lifecycle follows
RegisterThe == \E cfg \in Configs : cfg.name = "a" /\ Register(cfg)

\* the same, for a record that is not supervised: restart_policy never, with
\* which max_retries is not read
RegisterNever ==
  \E cfg \in Configs :
    /\ cfg.name = "a"
    /\ cfg.restart_policy = "never"
    /\ cfg.max_retries = 0
    /\ Register(cfg)

\* start_process, by the caller or by a supervision loop
StartStep ==
  \/ \E t \in Threads : StartGet(t)
  \/ \E t \in Threads : StartStarting(t)
  \/ \E t \in Threads : StartSpawn(t)
  \/ \E t \in Threads : StartSpawnFails(t)
  \/ \E t \in Threads : StartRunning(t)
  \/ \E t \in Threads : StartMonitor(t)
  \/ \E t \in Threads : StartFailed(t)

StopStep ==
  \/ StopGet
  \/ StopJoin
  \/ StopStopping
  \/ \E force \in BOOLEAN : StopSignal(force)
  \/ StopWait
  \/ StopKill
  \/ StopStopped

LoopStep ==
  \/ \E k \in Loops : LoopPoll(k)
  \/ \E k \in Loops : LoopBackoff(k)
  \/ \E k \in Loops : LoopIncr(k)
  \/ \E k \in Loops : LoopFinal(k)

MonStep == MonList \/ MonCheck \/ MonWrite

HbStep == ReapList \/ ReapWrite \/ HbBeat \/ HbWrite

ChildStep ==
  \E c \in 1 .. Len(children), s \in {"exit0", "exit1"} : ChildExit(c, s)

\* The controller alone: callers, supervision loops and children.
NextCtl ==
  \/ RegisterThe
  \/ CallStart
  \/ CallStop
  \/ StartStep
  \/ StopStep
  \/ LoopStep
  \/ ChildStep

SpecCtl == Init /\ [][NextCtl]_vars

\* register(config) for a record that is restarted on failure
RegisterOnFailure ==
  \E cfg \in Configs :
    /\ cfg.name = "a"
    /\ cfg.restart_policy = "on-failure"
    /\ cfg.max_retries = MaxRetriesCfg
    /\ Register(cfg)

\* A controller created on a database that an earlier process of the program
\* left behind: the record is in whatever state that process had written
\* last, the child it had spawned, if any, is running or has exited, and the
\* new controller has no handle and no supervision loop.
StoredConfig ==
  [ name |-> "a", restart_policy |-> "on-failure",
    max_retries |-> MaxRetriesCfg ]

StoredTable(state) ==
  LET new == [ i \in {TheId} |-> NewRow(StoredConfig) ]
      starting == UpdateState(new, TheId, "starting", NoPid, "none")
      running == UpdateState(starting, TheId, "running", 1, "none")
  IN  CASE state = "registered" -> new
        [] state = "starting" -> starting
        [] state = "running" -> running
        [] OTHER -> UpdateState(running, TheId, state, NoPid, "none")

InitStored ==
  /\ InitControl
  /\ \E state \in States :
       /\ table = StoredTable(state)
       /\ IF state \in {"registered", "starting"} THEN children = << >>
          ELSE children \in {<<"alive">>, <<"exit1">>}
  /\ clock = 1
  /\ everIds = {TheId}
  /\ regResult = [ op |-> "none", ok |-> TRUE, id |-> MakeId("a", 0),
                   dup |-> FALSE, fresh |-> FALSE, changed |-> FALSE ]
  /\ observed = 0
  /\ probe = [ op |-> "none" ]

NextStored ==
  \/ CallStart
  \/ CallStop
  \/ StartStep
  \/ StopStep
  \/ LoopStep
  \/ ChildStep

SpecStored == InitStored /\ [][NextStored]_vars

\* ------------------------------- heartbeat tracker: the age it computes
\* Seconds by which the host's local time is ahead of UTC.
UtcOffsets == {0 - 3600, 0, 3600}

\* Seconds since the last heartbeat of the record the tick finds.
HeartbeatAges == {Never, 0, 30, 31, 60, 61, 100}

\* time_since_heartbeat: datetime.now(), the host's local time, minus
\* last_heartbeat, which update_heartbeat stored as CURRENT_TIMESTAMP, the time
\* in UTC; both are naive datetimes.
TimeSinceHeartbeat(age, utc_offset) == age + utc_offset

\* _check_heartbeats on a row of its list_processes(RUNNING) snapshot, on a
\* host at utc_offset
CrashVerdictAt(row, utc_offset) ==
  /\ row.state = "running"
  /\ row.last_heartbeat # Never
  /\ TimeSinceHeartbeat(row.last_heartbeat, utc_offset) > crash_threshold

InitReap ==
  /\ InitLife
  /\ \E state \in States, age \in HeartbeatAges :
       table = [ i \in {TheId} |->
                 [ StoredTable(state)[i] EXCEPT !.last_heartbeat = age ] ]
  /\ clock = 1
  /\ everIds = {TheId}
  /\ regResult = [ op |-> "none", ok |-> TRUE, id |-> MakeId("a", 0),
                   dup |-> FALSE, fresh |-> FALSE, changed |-> FALSE ]
  /\ observed = 0
  /\ probe \in [ op : {"host"}, utc_offset : UtcOffsets ]

\* one tick of _check_heartbeats with nothing else running
ReapTick ==
  /\ probe.op = "host"
  /\ table' = IF CrashVerdictAt(Row, probe.utc_offset)
              THEN UpdateState(table, TheId, "crashed", NoPid,
                               "Heartbeat timeout")
              ELSE table
  /\ probe' = [ op |-> "reaped", utc_offset |-> probe.utc_offset,
                was |-> Row ]
  /\ UNCHANGED <<clock, everIds, regResult, observed>>
  /\ UNCHANGED <<ctlVars, monVars, hbVars>>

SpecReap == InitReap /\ [][ReapTick]_vars

\* The controller under the monitor loop, with a caller that starts the record
\* and tears the controller down.
NextAll ==
  \/ RegisterOnFailure
  \/ CallStart
  \/ \E op \in {"stop_all", "cleanup"} : CallStopAll(op)
  \/ CleanupJoin
  \/ StartStep
  \/ StopStep
  \/ LoopStep
  \/ ChildStep
  \/ MonStep

SpecAll == Init /\ [][NextAll]_vars

\* The controller and the monitor loop.
NextMon == NextCtl \/ MonStep

SpecMon == Init /\ [][NextMon]_vars

\* An unsupervised record under the monitor and the heartbeat tracker, with
\* time passing.
NextHb ==
  \/ RegisterNever
  \/ CallStart
  \/ CallStop
  \/ StartStep
  \/ StopStep
  \/ ChildStep
  \/ MonStep
  \/ HbStep
  \/ AgeTick

SpecHb == Init /\ [][NextHb]_vars

\* stop_process runs in the thread of its caller, which the scheduler does
\* not starve: a step of it that can be taken is taken.
SpecStop == SpecHb /\ WF_vars(StopStep)

\* Everything at once.
Next == NextMon \/ HbStep \/ AgeTick

Spec == Init /\ [][Next]_vars

\* ================================================================ claims

\* The state table of the specification (section 4.1).
LegalTransitions ==
  { <<"registered", "starting">>, <<"stopped", "starting">>,
    <<"failed", "starting">>, <<"starting", "running">>,
    <<"starting", "failed">>, <<"running", "stopping">>,
    <<"stopping", "stopped">>, <<"running", "crashed">>,
    <<"running", "failed">>, <<"running", "stopped">> }

\* C1: every change of the record's state, by whichever actor, is one of the
\* legal transitions of the state table.
C1_OnlyLegalTransitions ==
  [][ (TheId \in DOMAIN table /\ TheId \in DOMAIN table'
       /\ table'[TheId].state # table[TheId].state)
      => <<table[TheId].state, table'[TheId].state>> \in LegalTransitions ]_vars

\* C2: once stop_process on a RUNNING record has returned success, and until
\* the caller calls again, the record is STOPPED.
C2_StoppedStaysStopped ==
  (pc[Caller] = "idle" /\ ret = "stopped")
    => (TheId \in DOMAIN table /\ Row.state = "stopped")

\* C3: a supervision loop whose stop_event is set takes no step that changes
\* the registry or spawns a child.
C3_CancelledLoopIsInert ==
  [][ \A k \in Loops :
        (event[k] /\ pc[k] \notin {"unborn", "done"} /\ pc'[k] # pc[k])
          => (table' = table /\ children' = children) ]_vars

\* C4: a record whose state is RUNNING has a pid.
C4_RunningHasPid ==
  \A i \in DOMAIN table : table[i].state = "running" => table[i].pid # NoPid

\* C5: a record in STOPPED, FAILED or CRASHED has no pid (the half of "not
\* RUNNING implies pid absent" that the claim spells out for both update_state
\* and cleanup_stale).
C5_TerminalHasNoPid ==
  \A i \in DOMAIN table : table[i].state \in Terminal => table[i].pid = NoPid

\* C6: the start_process a supervision loop calls after it has incremented
\* restart_count, while its stop_event is not set, goes on to spawn a child:
\* it is not turned away.
C6_IncrementMeansRespawn ==
  [][ \A k \in Loops :
        (pc[k] = "start" /\ ~event[k] /\ TheId \in DOMAIN table
         /\ pc'[k] # pc[k])
          => pc'[k] = "s_starting" ]_vars

\* C7: policy on-failure, one start by the caller and no other call, every
\* child exited non-zero: when the supervision loop has ended the record is
\* FAILED with restart_count = max_retries, and the monitor leaves it so.
C7_EndsFailed ==
  ( /\ TheId \in DOMAIN table
    /\ Row.config.restart_policy = "on-failure"
    /\ callerOps = 1 /\ pc[Caller] = "idle" /\ ret = "started"
    /\ \A k \in Loops : pc[k] \in {"unborn", "done"}
    /\ \E k \in Loops : pc[k] = "done"
    /\ \A c \in 1 .. Len(children) : children[c] = "exit1" )
  => (Row.state = "failed" /\ Row.restart_count = Row.config.max_retries)

\* C8: a RUNNING record that has had no heartbeat at all, more than
\* crash_threshold seconds after it started, is one the heartbeat tracker's
\* check marks CRASHED.
C8_SilentChildIsReaped ==
  \A i \in DOMAIN table :
    (table[i].state = "running" /\ table[i].last_heartbeat = Never
     /\ table[i].started_at > crash_threshold)
      => CrashVerdict(table[i])

\* C9: no two records share a name, and a register whose name is present
\* fails and leaves the table as it was.
C9_NameUnique ==
  /\ \A i, j \in DOMAIN table :
       table[i].config.name = table[j].config.name => i = j
  /\ (regResult.op = "register" /\ regResult.dup)
       => (~regResult.ok /\ ~regResult.changed)

C9_Witness ==
  /\ regResult.op = "register" /\ regResult.dup /\ ~regResult.ok
  /\ Cardinality(DOMAIN table) = 2
  /\ Cardinality(everIds) > 2

\* C10: the id a successful register returns is the id of no record that
\* existed before.
C10_IdNeverReused ==
  (regResult.op = "register" /\ regResult.ok) => regResult.fresh

\* C11: the restart_count a reader sees for one id never goes down, whatever
\* register, unregister and increment_restart_count calls come in between.
C11_CountNeverDecreases ==
  [][ observed' >= observed ]_vars

\* C12: cleanup_stale_processes(T) turns into CRASHED, with the error message
\* "Process heartbeat timeout", exactly the records that were RUNNING with a
\* last_heartbeat more than T seconds old, and leaves the state of every
\* other record as it was.
C12_CleanupExact ==
  probe.op = "cleanup" =>
    /\ DOMAIN table = DOMAIN probe.before
    /\ \A i \in DOMAIN table :
         IF /\ probe.before[i].state = "running"
            /\ probe.before[i].last_heartbeat # Never
            /\ probe.before[i].last_heartbeat > probe.timeout
         THEN /\ table[i].state = "crashed"
              /\ table[i].error_message = "Process heartbeat timeout"
         ELSE table[i].state = probe.before[i].state

C12_Witness ==
  /\ probe.op = "cleanup"
  /\ probe.timeout = cleanup_timeout
  /\ probe.before[MakeId("a", 0)].state = "running"
  /\ probe.before[MakeId("a", 0)].last_heartbeat = cleanup_timeout + 1
  /\ table[MakeId("a", 0)].state = "crashed"
  /\ probe.before[MakeId("b", 0)].state = "running"
  /\ probe.before[MakeId("b", 0)].last_heartbeat = cleanup_timeout
  /\ table[MakeId("b", 0)].state = "running"

\* C13: _should_restart returns FALSE for never, attempt < max_retries for
\* always, exit_code # 0 and attempt < max_retries for on-failure and for
\* unless-stopped, FALSE for any other policy string; so it returns TRUE only
\* when attempt < max_retries.
C13_ShouldRestartTable ==
  probe.op = "should_restart" =>
    /\ probe.out =
         CASE probe.policy = "never" -> FALSE
           [] probe.policy = "always" -> probe.attempt < probe.max_retries
           [] probe.policy \in {"on-failure", "unless-stopped"} ->
                (probe.exit_code # 0 /\ probe.attempt < probe.max_retries)
           [] OTHER -> FALSE
    /\ probe.out => probe.attempt < probe.max_retries

C13_Witness ==
  /\ probe.op = "should_restart"
  /\ probe.policy = "unless-stopped"
  /\ probe.exit_code = -9
  /\ probe.attempt + 1 = probe.max_retries
  /\ probe.out

\* C14: stop_process on a record that is STOPPED, FAILED or CRASHED returns
\* success and leaves the registry as it is: state, pid, timestamps,
\* error_message and restart_count.  The branch is taken before force is
\* looked at.
C14_StopOnTerminalIsNoOp ==
  [][ ( /\ pc[Caller] = "stop" /\ pc'[Caller] # "stop"
        /\ TheId \in DOMAIN table /\ Row.state \in Terminal )
      => (ret' = "already_stopped" /\ table' = table) ]_vars

C14_Witness ==
  /\ pc[Caller] = "idle" /\ ret = "already_stopped"
  /\ TheId \in DOMAIN table
  /\ Row.state = "crashed" /\ Row.error_message = "Process not found"

\* C15: policy on-failure, one start by the caller and no other call, the
\* child exited with code 0: when the supervision loop has ended and the
\* monitor is between ticks, the record is STOPPED, restart_count is 0 and
\* no second child was spawned.
C15_CleanExitEndsStopped ==
  ( /\ TheId \in DOMAIN table
    /\ Row.config.restart_policy = "on-failure"
    /\ callerOps = 1 /\ pc[Caller] = "idle" /\ ret = "started"
    /\ \A k \in Loops : pc[k] \in {"unborn", "done"}
    /\ \E k \in Loops : pc[k] = "done"
    /\ \A c \in 1 .. Len(children) : children[c] = "exit0"
    /\ mpc = "idle" )
  => (Row.state = "stopped" /\ Row.restart_count = 0 /\ Len(children) = 1)

\* C16: for a record with policy always and max_retries 0 no supervision loop
\* ever gets past its poll to the backoff wait, the increment of restart_count
\* or a start_process call: restart_count stays 0 and every loop's attempt 0.
C16_NoRestartAtZero ==
  ( /\ TheId \in DOMAIN table
    /\ Row.config.restart_policy = "always"
    /\ Row.config.max_retries = 0 )
  => /\ Row.restart_count = 0
     /\ \A k \in Loops :
          pc[k] \in {"unborn", "poll", "final", "done"} /\ attempt[k] = 0

C16_Witness ==
  /\ TheId \in DOMAIN table
  /\ Row.config.restart_policy = "always"
  /\ Row.config.max_retries = 0
  /\ Len(children) = 1 /\ children[1] = "exit1"
  /\ \E k \in Loops : pc[k] = "done"
  /\ Row.state = "failed"

\* C17: a stop_process without force whose child is still running when the
\* graceful wait runs out goes on to the kill and returns: it returns success,
\* the child it signalled has exited, the handle is out of the map and the
\* record is STOPPED.
C17_StubbornChildIsKilled ==
  /\ [][ (pc[Caller] = "t_killed" /\ pc'[Caller] # "t_killed")
         => /\ pc'[Caller] = "idle" /\ ret' = "stopped"
            /\ ~Alive(proc[Caller])
            /\ processes' = NoChild
            /\ table'[TheId].state = "stopped" ]_vars
  /\ (pc[Caller] = "t_kill") ~> (pc[Caller] = "idle" /\ ret = "stopped")

C17_Witness ==
  /\ pc[Caller] = "t_killed"
  /\ proc[Caller] # NoChild
  /\ children[proc[Caller]] = "killed"
  /\ Row.state = "stopping"

\* C18: with policy never and nobody but the controller writing, the record
\* changes only along REGISTERED -> STARTING -> RUNNING (pid set) ->
\* STOPPING -> STOPPED (pid cleared, stopped_at set), a later start_process
\* beginning again at STARTING, and a spawn that fails ending in FAILED.
C18_ControllerOrder ==
  [][ ( /\ TheId \in DOMAIN table /\ TheId \in DOMAIN table'
        /\ Row.config.restart_policy = "never"
        /\ table'[TheId] # Row )
      => LET new == table'[TheId] IN
         \/ /\ Row.state \in {"registered", "stopped", "failed"}
            /\ new.state = "starting" /\ new.pid = NoPid
         \/ /\ Row.state = "starting" /\ new.state = "running"
            /\ new.pid # NoPid /\ new.stopped_at = Never
         \/ /\ Row.state = "starting" /\ new.state = "failed"
            /\ new.pid = NoPid
         \/ /\ Row.state = "running" /\ new.state = "stopping"
            /\ new.pid = Row.pid
         \/ /\ Row.state = "stopping" /\ new.state = "stopped"
            /\ new.pid = NoPid /\ new.stopped_at = Set ]_vars

C18_Witness ==
  /\ TheId \in DOMAIN table
  /\ Row.config.restart_policy = "never"
  /\ callerOps = 2 /\ pc[Caller] = "idle" /\ ret = "stopped"
  /\ children = <<"terminated">>
  /\ Row.state = "stopped" /\ Row.pid = NoPid /\ Row.stopped_at = Set

\* C19: a RUNNING record has started_at set and stopped_at absent, and a
\* STOPPED, FAILED or CRASHED record has stopped_at set, whether update_state
\* or cleanup_stale_processes put it in that state.
C19_TimestampsFollowState ==
  \A i \in DOMAIN table :
    /\ table[i].state = "running"
         => (table[i].started_at # Never /\ table[i].stopped_at = Never)
    /\ table[i].state \in Terminal => table[i].stopped_at = Set

C21_BackoffCaps ==
  probe.op = "backoff" =>
    /\ probe.index \in 0 .. 6
    /\ probe.wait = CASE probe.attempt = 0 -> 1
                      [] probe.attempt = 1 -> 2
                      [] probe.attempt = 2 -> 4
                      [] probe.attempt = 3 -> 8
                      [] probe.attempt = 4 -> 16
                      [] probe.attempt = 5 -> 30
                      [] OTHER -> 60

C21_Witness ==
  /\ probe.op = "backoff"
  /\ probe.attempt > 7
  /\ probe.wait = 60

\* C22: the register that follows a successful unregister(id1) and carries
\* the name of id1 succeeds, and leaves exactly one record of that name, in
\* state REGISTERED with restart_count 0.
C22_RegisterAfterUnregister ==
  [][ ( /\ regResult.op = "unregister" /\ regResult.ok
        /\ regResult'.op = "register"
        /\ regResult'.id[1] = regResult.id[1] )
      => /\ regResult'.ok
         /\ regResult'.id \in DOMAIN table'
         /\ table'[regResult'.id].state = "registered"
         /\ table'[regResult'.id].restart_count = 0
         /\ Cardinality({ i \in DOMAIN table' :
               table'[i].config.name = regResult'.id[1] }) = 1 ]_vars

C22_Witness ==
  /\ regResult.op = "register" /\ regResult.ok /\ ~regResult.fresh
  /\ regResult.id = TheId
  /\ observed = MaxCount
  /\ Row.state = "registered" /\ Row.restart_count = 0

\* C23: from_dict(to_dict(c)) = c for every config c, the dict carrying the
\* type as its lowercase value; configs with empty env, ports and
\* dependencies and with no health_check_endpoint are among them.
C23_ConfigRoundTrip ==
  probe.op = "round_trip" =>
    /\ probe.back = probe.c
    /\ probe.d.type \in {"python", "nodejs", "shell", "docker", "custom"}

C23_Witness ==
  /\ probe.op = "round_trip"
  /\ probe.c.type = "DOCKER" /\ probe.d.type = "docker"
  /\ probe.c.env = << >> /\ probe.c.ports = << >>
  /\ probe.c.dependencies = << >>
  /\ probe.c.health_check_endpoint = None
  /\ probe.back = probe.c

\* C24: when a caller's start_process of a record whose restart_policy is not
\* "never" returns True, the controller refers to a supervision loop of the
\* record that is running, also after an earlier loop has ended on its own.
C24_StartHasLiveLoop ==
  [][ (pc[Caller] = "s_monitor" /\ pc'[Caller] = "idle"
       /\ pol[Caller] # "never")
      => /\ restart_threads' # NoLoop
         /\ pc'[restart_threads'] \notin {"unborn", "done"} ]_vars

\* C25: at most one child spawned for the record is alive at any time.
C25_OneLiveChild ==
  Cardinality({ c \in 1 .. Len(children) : Alive(c) }) <= 1

\* C26: when stop_process has returned True no child spawned for the record
\* is alive, whichever state the record was in when stop was called.
C26_StopLeavesNoChild ==
  (pc[Caller] = "idle" /\ ret \in {"stopped", "already_stopped"})
    => \A c \in 1 .. Len(children) : ~Alive(c)

\* C27: between stop_process returning True and the caller's next call no
\* supervision loop increments restart_count or spawns a child.
C27_NoRestartAfterStop ==
  [][ (pc[Caller] = "idle" /\ ret \in {"stopped", "already_stopped"}
       /\ pc'[Caller] = "idle" /\ TheId \in DOMAIN table)
      => /\ Len(children') = Len(children)
         /\ TheId \in DOMAIN table' =>
              table'[TheId].restart_count = Row.restart_count ]_vars

\* C28: the heartbeat tracker's write of CRASHED finds the record RUNNING; a
\* record that has left RUNNING since the tracker listed it keeps its state.
C28_ReaperWritesOnlyRunning ==
  [][ (rpc = "write" /\ rpc' = "idle" /\ TheId \in DOMAIN table)
      => (Row.state = "running" \/ table'[TheId].state = Row.state) ]_vars

\* C29: the monitor's write of CRASHED for a pid that is gone finds the record
\* RUNNING; a record that is STOPPING, STOPPED, FAILED or STARTING by then
\* keeps its state.
C29_MonitorWritesOnlyRunning ==
  [][ (mpc = "write" /\ mpc' = "idle" /\ TheId \in DOMAIN table)
      => (Row.state = "running" \/ table'[TheId].state = Row.state) ]_vars

\* C30: register_heartbeat changes the state of a record, to RUNNING, exactly
\* when the record is STARTING at the state write; a record in any other
\* state keeps it.
C30_HeartbeatPromotesOnlyStarting ==
  [][ /\ (hpc = "write" /\ hpc' = "idle" /\ TheId \in DOMAIN table)
         => (Row.state = "starting" \/ table'[TheId].state = Row.state)
      /\ (hpc = "idle" /\ table' = UpdateHeartbeat(table, TheId)
          /\ table' # table /\ Row.state = "starting")
         => hpc' = "write" ]_vars

\* A supervision loop that is running: its thread has been started and has
\* not ended.
LiveLoops == { k \in Loops : pc[k] \notin {"unborn", "done"} }

\* C31: in stop_process on a RUNNING record, when STOPPING is written and when
\* the child is signalled, the stop_event of every running supervision loop of
\* the record is set, so no loop sees the exit stop causes with its event
\* unset.
C31_CancelledBeforeSignal ==
  [][ ( \/ (pc[Caller] = "t_stopping" /\ pc'[Caller] = "t_signal")
        \/ (pc[Caller] \in {"t_signal", "t_kill"} /\ children' # children) )
      => \A k \in LiveLoops : event[k] ]_vars

\* C32: a supervision loop whose stop_event is set while it is in its backoff
\* wait ends without touching the registry or spawning; a loop comes to
\* increment_restart_count only from a backoff wait that ran out with the
\* event unset, and restart_count changes only by that increment.
C32_CancelledBackoffEnds ==
  [][ /\ \A k \in Loops :
           /\ (pc[k] = "backoff" /\ event[k] /\ pc'[k] # pc[k])
                => (pc'[k] = "done" /\ table' = table /\ children' = children)
           /\ (pc'[k] = "incr" /\ pc[k] # "incr")
                => (pc[k] = "backoff" /\ ~event[k])
      /\ (TheId \in DOMAIN table /\ TheId \in DOMAIN table'
          /\ table'[TheId].restart_count > Row.restart_count)
         => \E k \in Loops : pc[k] = "incr" /\ pc'[k] = "start" ]_vars

\* stop_process has set the event of a loop that is in its backoff wait and
\* joins it.
C32_Witness ==
  /\ pc[Caller] = "t_join"
  /\ restart_threads # NoLoop
  /\ pc[restart_threads] = "backoff" /\ event[restart_threads]
  /\ Row.restart_count = 0

\* C33: when stop_all returns the controller holds no handle and the child
\* whose handle it found has exited; when cleanup returns that is so and no
\* supervision loop is running.
C33_TornDown ==
  [][ /\ (ret # ret' /\ ret' \in {"stop_all_done", "cleanup_done"})
         => /\ processes' = NoChild
            /\ tracked' # NoChild => ~Alive(tracked')
      /\ (ret # ret' /\ ret' = "cleanup_done") => LiveLoops' = {} ]_vars

\* C34: while the record is STOPPED, FAILED or CRASHED and no start_process of
\* it is under way, the controller holds no handle for it and no supervision
\* loop of it is registered or running.
C34_TerminalReleasesAll ==
  ( /\ TheId \in DOMAIN table
    /\ Row.state \in Terminal
    /\ \A t \in Threads :
         pc[t] \notin {"start", "s_starting", "s_spawn", "s_running",
                       "s_monitor", "s_failed"} )
    => /\ processes = NoChild
       /\ restart_threads = NoLoop
       /\ LiveLoops = {}

\* C35: the start_process whose spawn has failed returns failure and leaves
\* the record FAILED with the spawn error as error_message and no pid; it
\* stores no handle, starts no supervision loop and spawns nothing.
C35_SpawnFailureEndsFailed ==
  [][ \A t \in Threads :
        (pc[t] = "s_failed" /\ pc'[t] # pc[t] /\ TheId \in DOMAIN table)
          => /\ table'[TheId].state = "failed"
             /\ table'[TheId].error_message = "spawn error"
             /\ table'[TheId].pid = NoPid
             /\ processes' = processes
             /\ restart_threads' = restart_threads
             /\ LiveLoops' = LiveLoops
             /\ children' = children
             /\ IF t = Caller
                THEN pc'[t] = "idle" /\ ret' = "spawn_failed"
                ELSE pc'[t] = "poll" ]_vars

C35_Witness ==
  /\ pc[Caller] = "idle" /\ ret = "spawn_failed"
  /\ Row.state = "failed" /\ Row.error_message = "spawn error"
  /\ Row.pid = NoPid
  /\ processes = NoChild /\ restart_threads = NoLoop /\ children = << >>

\* C36: start_process for an id that has no record, or whose record is
\* RUNNING, returns failure and changes nothing: not the registry, not the
\* handles, not the supervision loops, and no child is spawned.
C36_RefusedStartChangesNothing ==
  [][ \A t \in Threads :
        (pc[t] = "start" /\ pc'[t] # pc[t]
         /\ (TheId \notin DOMAIN table \/ Row.state = "running"))
          => /\ table' = table
             /\ children' = children
             /\ UNCHANGED handles
             /\ event' = event
             /\ LiveLoops' = LiveLoops
             /\ IF t = Caller
                THEN /\ pc'[t] = "idle"
                     /\ ret' = IF TheId \in DOMAIN table
                               THEN "already_running" ELSE "notfound"
                ELSE pc'[t] = "poll" ]_vars

C36_Witness ==
  /\ pc[Caller] = "idle" /\ ret = "already_running"
  /\ callerOps = 2
  /\ Row.state = "running" /\ Row.pid = 1
  /\ children = <<"alive">> /\ processes = 1

\* C37: stop_process for a record that is REGISTERED, STARTING or STOPPING
\* returns failure and changes nothing: not the record, not the handles, not
\* the supervision loop or its stop_event.
C37_RefusedStopChangesNothing ==
  [][ ( /\ pc[Caller] = "stop" /\ pc'[Caller] # "stop"
        /\ TheId \in DOMAIN table
        /\ Row.state \in {"registered", "starting", "stopping"} )
      => /\ pc'[Caller] = "idle" /\ ret' = "refused"
         /\ table' = table
         /\ children' = children
         /\ UNCHANGED handles
         /\ event' = event
         /\ LiveLoops' = LiveLoops ]_vars

C37_Witness ==
  /\ pc[Caller] = "idle" /\ ret = "refused"
  /\ Row.state = "stopping" /\ Row.pid = 1
  /\ children = <<"alive">> /\ processes = NoChild

\* C38: a tick of the heartbeat tracker turns a RUNNING record whose
\* last_heartbeat is set into CRASHED exactly when the heartbeat is more than
\* 60 s old; at 60 s and below the record stays RUNNING.
C38_CrashedIffOlderThan60 ==
  ( /\ probe.op = "reaped"
    /\ probe.was.state = "running"
    /\ probe.was.last_heartbeat # Never )
    => IF probe.was.last_heartbeat > 60
       THEN Row.state = "crashed"
       ELSE Row = probe.was

\* C39: at most one supervision loop of the record is running at any time.
C39_OneLiveLoop == Cardinality(LiveLoops) <= 1

\* C40: a step that adds a record is a successful register; update_state,
\* update_heartbeat, increment_restart_count and register_heartbeat for an id
\* that has no record leave the whole table as it is, and register_heartbeat
\* returns False for it; cleanup_stale_processes adds no record.
C40_OnlyRegisterCreates ==
  [][ /\ (DOMAIN table' \ DOMAIN table # {})
         => /\ regResult'.op = "register" /\ regResult'.ok
            /\ DOMAIN table' \ DOMAIN table = {regResult'.id}
            /\ probe' = probe
      /\ (probe' # probe /\ probe'.op \in WriteOps /\ ~probe'.known)
         => /\ table' = table
            /\ probe'.op = "register_heartbeat" => ~probe'.ok
      /\ (probe' # probe /\ probe'.op \in WriteOps)
         => \A i \in DOMAIN table \ {probe'.id} :
              i \in DOMAIN table' /\ table'[i] = table[i] ]_vars

\* a heartbeat for the id of a record that has just been unregistered is
\* rejected, and the other record is as it was
C40_Witness ==
  /\ probe.op = "register_heartbeat" /\ ~probe.known /\ ~probe.ok
  /\ probe.id = TheId
  /\ regResult.op = "unregister" /\ regResult.ok /\ regResult.id = TheId
  /\ DOMAIN table = {MakeId("b", 0)}
  /\ table[MakeId("b", 0)] =
       NewRow([ name |-> "b", restart_policy |-> "never", max_retries |-> 0 ])
====
